---- MODULE Spec2Model ----
(***************************************************************************)
(* Verification model of the reconciliation decision engine of             *)
(* cloud-on-k8s: the esconfig controller (Reconcile, doReconcile,          *)
(* ReconcileOperation, updateRequired), the Elasticsearch status tracker   *)
(* (reconcile.State) and the e2e upgrade path validator (isValidUpgrade).  *)
(***************************************************************************)
EXTENDS Integers, Sequences, FiniteSets, TLC

(***************************************************************************)
(* Bounds of the model.                                                    *)
(***************************************************************************)
MaxOps == 2
MaxIterations == 2

(***************************************************************************)
(* HTTP status codes used by updateRequired.                               *)
(***************************************************************************)
StatusOK == 200
StatusNotFound == 404
StatusInternalServerError == 500

(***************************************************************************)
(* JSON documents (the decoded form of a request or response body).        *)
(***************************************************************************)
Num(n) == [t |-> "num", v |-> n]
Arr(s) == [t |-> "arr", s |-> s]
Obj(f) == [t |-> "obj", f |-> f]
InvalidJSON == [t |-> "invalid"]
NoBody == [t |-> "none"]

BodyA1 == Obj([a |-> Num(1)])
BodyA2 == Obj([a |-> Num(2)])
BodyA1B2 == Obj([a |-> Num(1), b |-> Num(2)])
BodyNested == Obj([a |-> Num(1), n |-> Obj([x |-> Num(1)]), l |-> Arr(<<Num(1)>>)])
BodyNestedSuper ==
    Obj([a |-> Num(1), n |-> Obj([x |-> Num(1), y |-> Num(2)]), l |-> Arr(<<Num(1), Num(2)>>)])
BodyNestedLess == Obj([a |-> Num(1), n |-> Obj([y |-> Num(2)]), l |-> Arr(<<Num(1)>>)])

ObservedBodies ==
    {BodyA1, BodyA2, BodyA1B2, BodyNested, BodyNestedSuper, BodyNestedLess, InvalidJSON}

SetMax(S) == CHOOSE x \in S : \A y \in S : y <= x

(***************************************************************************)
(* jsondiff.Compare: FullMatch < SupersetMatch < NoMatch, the result is    *)
(* the largest difference found in the two documents.                      *)
(***************************************************************************)
FullMatch == 0
SupersetMatch == 1
NoMatch == 2
FirstArgIsInvalidJson == 3
SecondArgIsInvalidJson == 4
BothArgsAreInvalidJson == 5

RECURSIVE printDiff(_, _)
printDiff(a, b) ==
    IF a.t # b.t THEN NoMatch
    ELSE IF a.t = "num" THEN (IF a.v = b.v THEN FullMatch ELSE NoMatch)
    ELSE IF a.t = "arr" THEN
        LET salen == Len(a.s)
            sblen == Len(b.s)
            max == IF sblen > salen THEN sblen ELSE salen
        IN  SetMax({FullMatch} \cup
                {IF i <= salen /\ i <= sblen THEN printDiff(a.s[i], b.s[i])
                 ELSE IF i <= salen THEN SupersetMatch ELSE NoMatch : i \in 1..max})
    ELSE
        SetMax({FullMatch} \cup
                {IF k \in DOMAIN a.f /\ k \in DOMAIN b.f THEN printDiff(a.f[k], b.f[k])
                 ELSE IF k \in DOMAIN a.f THEN SupersetMatch ELSE NoMatch :
                    k \in (DOMAIN a.f) \cup (DOMAIN b.f)})

jsondiffCompare(a, b) ==
    IF a = InvalidJSON /\ b = InvalidJSON THEN BothArgsAreInvalidJson
    ELSE IF a = InvalidJSON THEN FirstArgIsInvalidJson
    ELSE IF b = InvalidJSON THEN SecondArgIsInvalidJson
    ELSE printDiff(a, b)

(***************************************************************************)
(* The declared ElasticsearchConfig operations.                            *)
(***************************************************************************)
URLs == {"/_snapshot/repo", "/_ilm/policy/p"}

Operation(url, body) == [URL |-> url, Body |-> body]

DeclaredOperations ==
    { Operation("/_snapshot/repo", BodyA1),
      Operation("/_snapshot/repo", BodyA2),
      Operation("/_ilm/policy/p", BodyNested) }

SeqsUpTo(S, n) == UNION {[1..k -> S] : k \in 0..n}

VARIABLES
    esc,        \* the ElasticsearchConfig being reconciled: its Spec.Operations
    debug,      \* log.V(1).Enabled()
    es,         \* the live Elasticsearch cluster: URL -> stored body, or NoBody
    pc,         \* position of the reconcile pass
    opIdx,      \* index of the operation the loop of doReconcile is at
    requests,   \* the HTTP requests issued by the pass, in order
    recorded,   \* events emitted on r.recorder by the pass
    result,     \* what Reconcile returned: [Requeue, err], or NoResult
    retAt,      \* the return statement the pass left by
    env,        \* what the lookups of the pass answered, "-" when not asked
    iteration,  \* r.iteration: number of Reconcile runs so far
    converged   \* history: an earlier pass ran every operation, stored each
                \* of its writes and returned without an error

ctrlVars ==
    <<esc, debug, es, pc, opIdx, requests, recorded, result, retAt, env, iteration, converged>>

VARIABLES
    srcVersion, \* isValidUpgrade's from
    dstVersion, \* isValidUpgrade's to
    upgrade     \* what isValidUpgrade returned: [valid, err], or NotRun

verVars == <<srcVersion, dstVersion, upgrade>>

VARIABLES
    resource,    \* the Status of the Elasticsearch resource as persisted
    s,           \* the State of the pass: [cluster, status, events, hints], or NoState
    observation, \* what the pass observed: [resourcesState, observedState]
    applied,     \* what the last Apply returned: [events, es], es nil or a resource
    lastOp,      \* the method of State called last
    lastErr,     \* the error given to the last UpdateElasticsearchInvalid
    calls        \* number of calls of methods of State in the pass

trackVars == <<resource, s, observation, applied, lastOp, lastErr, calls>>

vars == <<ctrlVars, verVars, trackVars>>

NotRun == [valid |-> FALSE, err |-> "-", test |-> "-"]

NoResult == [Requeue |-> FALSE, err |-> "-"]
NoError == "nil"

Event(type, reason) == [type |-> type, reason |-> reason]

NoLookups ==
    [fetch |-> "-", unmanaged |-> "-", compat |-> "-", valid |-> "-", es |-> "-", client |-> "-"]

CtrlInit ==
    /\ esc \in [Operations : SeqsUpTo(DeclaredOperations, MaxOps)]
    /\ debug \in BOOLEAN
    /\ es \in [URLs -> ObservedBodies \cup {NoBody}]
    /\ pc = "idle"
    /\ opIdx = 0
    /\ requests = <<>>
    /\ recorded = <<>>
    /\ result = NoResult
    /\ retAt = "-"
    /\ env = NoLookups
    /\ iteration = 0
    /\ converged = FALSE

\* The controller is not running.
CtrlIdle ==
    /\ esc = [Operations |-> <<>>]
    /\ debug = FALSE
    /\ es = [u \in URLs |-> NoBody]
    /\ pc = "off"
    /\ opIdx = 0
    /\ requests = <<>>
    /\ recorded = <<>>
    /\ result = NoResult
    /\ retAt = "-"
    /\ env = NoLookups
    /\ iteration = 0
    /\ converged = FALSE

\* The validator is not running.
VerIdle ==
    /\ srcVersion = <<>>
    /\ dstVersion = <<>>
    /\ upgrade = NotRun

otherThanCtrl == <<verVars, trackVars>>
otherThanVer == <<ctrlVars, trackVars>>
otherThanTrack == <<ctrlVars, verVars>>

Return(requeue, err, at) ==
    /\ pc' = "returned"
    /\ result' = [Requeue |-> requeue, err |-> err]
    /\ retAt' = at

(***************************************************************************)
(* Version strings are sequences of characters. version.Parse reads        *)
(* major.minor.patch[-pre]; Version.String writes it back.                 *)
(***************************************************************************)
DigitChars == <<"0", "1", "2", "3", "4", "5", "6", "7", "8", "9">>
IsDigit(c) == \E d \in 1..Len(DigitChars) : DigitChars[d] = c
DigitValue(c) == (CHOOSE d \in 1..Len(DigitChars) : DigitChars[d] = c) - 1

IsNumeric(str) == Len(str) > 0 /\ \A i \in 1..Len(str) : IsDigit(str[i])

RECURSIVE Atoi(_)
Atoi(str) ==
    IF Len(str) = 0 THEN 0
    ELSE Atoi(SubSeq(str, 1, Len(str) - 1)) * 10 + DigitValue(str[Len(str)])

RECURSIVE Itoa(_)
Itoa(n) ==
    IF n < 10 THEN <<DigitChars[n + 1]>>
    ELSE Itoa(n \div 10) \o <<DigitChars[(n % 10) + 1]>>

\* Position of the first c in str, 0 when there is none.
IndexOf(str, c) ==
    IF \E i \in 1..Len(str) : str[i] = c
    THEN CHOOSE i \in 1..Len(str) : str[i] = c /\ \A j \in 1..(i - 1) : str[j] # c
    ELSE 0

RECURSIVE Split(_, _)
Split(str, c) ==
    LET i == IndexOf(str, c) IN
    IF i = 0 THEN <<str>>
    ELSE <<SubSeq(str, 1, i - 1)>> \o Split(SubSeq(str, i + 1, Len(str)), c)

NilVersion == [nil |-> TRUE]
Version(major, minor, patch, pre) ==
    [nil |-> FALSE, Major |-> major, Minor |-> minor, Patch |-> patch, Pre |-> pre]

\* version.Parse: <<version, err>>; err is TRUE for a malformed string.
Parse(str) ==
    LET dash == IndexOf(str, "-")
        core == IF dash = 0 THEN str ELSE SubSeq(str, 1, dash - 1)
        pre == IF dash = 0 THEN <<>> ELSE SubSeq(str, dash + 1, Len(str))
        parts == Split(core, ".")
    IN  IF \/ Len(parts) # 3
           \/ \E i \in 1..Len(parts) : ~IsNumeric(parts[i])
           \/ (dash # 0 /\ pre = <<>>)
        THEN [v |-> NilVersion, err |-> TRUE]
        ELSE [v |-> Version(Atoi(parts[1]), Atoi(parts[2]), Atoi(parts[3]), pre),
              err |-> FALSE]

\* Version.String
String(v) ==
    Itoa(v.Major) \o <<".">> \o Itoa(v.Minor) \o <<".">> \o Itoa(v.Patch)
        \o (IF v.Pre = <<>> THEN <<>> ELSE <<"-">> \o v.Pre)

\* Version.GT: major, minor, patch in turn, numerically; with these equal,
\* a release is greater than its pre-release.
GT(v, o) ==
    \/ v.Major > o.Major
    \/ v.Major = o.Major /\ v.Minor > o.Minor
    \/ v.Major = o.Major /\ v.Minor = o.Minor /\ v.Patch > o.Patch
    \/ /\ v.Major = o.Major /\ v.Minor = o.Minor /\ v.Patch = o.Patch
       /\ v.Pre = <<>> /\ o.Pre # <<>>

\* Version.GTE
GTE(v, o) == GT(v, o) \/ v = o

(***************************************************************************)
(* isValidUpgrade, src/test/e2e/test/version.go lines 35-47.               *)
(***************************************************************************)
\* A slip of line 46: GT for GTE, so that a version "upgrades" to itself.
isValidUpgrade_AllowsEqual(from, to) ==
    LET srcVer == Parse(from)
        dstVer == Parse(to)
    IN  IF srcVer.err THEN [valid |-> FALSE, err |-> "failed to parse version"]
        ELSE IF dstVer.err THEN [valid |-> FALSE, err |-> "failed to parse version"]
        ELSE LET validMajorDigit ==
                    \/ dstVer.v.Major = srcVer.v.Major
                    \/ dstVer.v.Major = srcVer.v.Major + 1
             IN  [valid |-> validMajorDigit /\ ~GT(srcVer.v, dstVer.v), err |-> NoError]

isValidUpgrade(from, to) ==
    LET srcVer == Parse(from)
        dstVer == Parse(to)
    IN  IF srcVer.err THEN [valid |-> FALSE, err |-> "failed to parse version"]
        ELSE IF dstVer.err THEN [valid |-> FALSE, err |-> "failed to parse version"]
        ELSE LET validMajorDigit ==
                    \/ dstVer.v.Major = srcVer.v.Major
                    \/ dstVer.v.Major = srcVer.v.Major + 1
             IN  [valid |-> validMajorDigit /\ ~GTE(srcVer.v, dstVer.v), err |-> NoError]

\* The version strings the validator is run on: every major.minor.patch
\* within the bounds, released or pre-release, and some malformed strings.
MinMajor == 6
MaxMajor == 8
MaxMinor == 1
MaxPatch == 1
BigNumber == 10
PreRelease == <<"r", "c", "1">>

Numbers(max) == (0..max) \cup {BigNumber}

WellFormedVersions ==
    { String(Version(major, minor, patch, pre)) :
        major \in MinMajor..MaxMajor, minor \in Numbers(MaxMinor), patch \in Numbers(MaxPatch),
        pre \in {<<>>, PreRelease} }

MalformedVersions ==
    { <<>>, <<"7">>, <<"7", ".", "x", ".", "0">>, <<"7", ".", "1">>,
      <<"7", ".", "1", ".", "0", "-">>, <<"7", ".", ".", "0">> }

VersionStrings == WellFormedVersions \cup MalformedVersions

(***************************************************************************)
(* The status tracker, reconcile.State (src/unnamed/part_000 lines 25-201) *)
(***************************************************************************)
Status(phase, health, nodes, version) ==
    [Phase |-> phase, Health |-> health, AvailableNodes |-> nodes, Version |-> version]

ApplyingChangesPhase == "ApplyingChanges"
MigratingDataPhase == "MigratingData"
ReadyPhase == "Ready"
NodeShutdownStalledPhase == "NodeShutdownStalled"
ResourceInvalid == "Invalid"

RedHealth == "red"
YellowHealth == "yellow"
GreenHealth == "green"
UnknownHealth == "unknown"

\* The version labels of pods and StatefulSets.
V7_10_0 == <<"7", ".", "1", "0", ".", "0">>
V7_9_1 == <<"7", ".", "9", ".", "1">>
VMalformed == <<"7", ".", "x">>
VersionLabels == {V7_10_0, V7_9_1, VMalformed}

\* Bounds of the observations and of the calls of one pass.
MaxPods == 3
MaxStatefulSets == 1
MaxCalls == 3

Pod(ready, deleting, version) == [Ready |-> ready, Deleting |-> deleting, Version |-> version]
PodSet ==
    { Pod(TRUE, FALSE, V7_10_0), Pod(TRUE, TRUE, V7_9_1), Pod(FALSE, FALSE, VMalformed) }
StatefulSet(version) == [Version |-> version]

IsNotDeleting(pod) == ~pod.Deleting

\* ResourcesState: all pods, those of them not being deleted, and the
\* StatefulSets.
ResourcesState(pods, ssets) ==
    [AllPods |-> pods, CurrentPods |-> SelectSeq(pods, IsNotDeleting), StatefulSets |-> ssets]
ResourcesStates ==
    { ResourcesState(pods, ssets) :
        pods \in SeqsUpTo(PodSet, MaxPods),
        ssets \in SeqsUpTo({StatefulSet(v) : v \in VersionLabels}, MaxStatefulSets) }

\* observer.State: ClusterHealth is nil, or holds a Status that may be "".
NilHealth == [nil |-> TRUE]
ClusterHealth(status) == [nil |-> FALSE, Status |-> status]
ObservedStates ==
    { [ClusterHealth |-> h] :
        h \in {NilHealth} \cup {ClusterHealth(st) : st \in {"", RedHealth, YellowHealth, GreenHealth}} }

\* k8s.IsPodReady
IsPodReady(pod) == pod.Ready

\* AvailableElasticsearchNodes, lines 52-61
AvailableElasticsearchNodes(pods) == SelectSeq(pods, IsPodReady)

\* The loop of version.MinInPods and version.MinInStatefulSets over the
\* version labels: the first label that does not parse ends it in an error.
RECURSIVE MinLoop(_, _, _)
MinLoop(labels, i, min) ==
    IF i > Len(labels) THEN [v |-> min, err |-> FALSE]
    ELSE LET p == Parse(labels[i]) IN
         IF p.err THEN [v |-> NilVersion, err |-> TRUE]
         ELSE MinLoop(labels, i + 1, IF min.nil \/ GT(min, p.v) THEN p.v ELSE min)

LabelsOf(objs) == [i \in 1..Len(objs) |-> objs[i].Version]
MinInPods(pods) == MinLoop(LabelsOf(pods), 1, NilVersion)
MinInStatefulSets(ssets) == MinLoop(LabelsOf(ssets), 1, NilVersion)

\* A slip of lines 82-84: the pods' minimum is returned without comparing
\* it with the StatefulSets' minimum.
fetchMinRunningVersion_PodsFirst(resourcesState) ==
    LET minPodVersion == MinInPods(resourcesState.AllPods)
        minSsetVersion == MinInStatefulSets(resourcesState.StatefulSets)
    IN  IF minPodVersion.err THEN [v |-> NilVersion, err |-> TRUE]
        ELSE IF minSsetVersion.err THEN [v |-> NilVersion, err |-> TRUE]
        ELSE IF minPodVersion.v.nil THEN [v |-> minSsetVersion.v, err |-> FALSE]
        ELSE [v |-> minPodVersion.v, err |-> FALSE]

\* fetchMinRunningVersion, lines 63-87
fetchMinRunningVersion(resourcesState) ==
    LET minPodVersion == MinInPods(resourcesState.AllPods)
        minSsetVersion == MinInStatefulSets(resourcesState.StatefulSets)
    IN  IF minPodVersion.err THEN [v |-> NilVersion, err |-> TRUE]
        ELSE IF minSsetVersion.err THEN [v |-> NilVersion, err |-> TRUE]
        ELSE IF minPodVersion.v.nil THEN [v |-> minSsetVersion.v, err |-> FALSE]
        ELSE IF minSsetVersion.v.nil THEN [v |-> minPodVersion.v, err |-> FALSE]
        ELSE IF GT(minPodVersion.v, minSsetVersion.v)
            THEN [v |-> minSsetVersion.v, err |-> FALSE]
        ELSE [v |-> minPodVersion.v, err |-> FALSE]

\* updateWithPhase, lines 89-109: the status it leaves in s.status.
updateWithPhase(status, phase, resourcesState, observedState) ==
    LET lowestVersion == fetchMinRunningVersion(resourcesState)
        health == observedState.ClusterHealth
    IN  Status(phase,
               IF ~health.nil /\ health.Status # "" THEN health.Status ELSE UnknownHealth,
               Len(AvailableElasticsearchNodes(resourcesState.CurrentPods)),
               IF ~lowestVersion.err /\ ~lowestVersion.v.nil
               THEN String(lowestVersion.v) ELSE status.Version)

\* A slip of line 136: the health is left as it was.
applyingChanges_KeepsHealth(status, pods) ==
    Status(ApplyingChangesPhase, status.Health,
           Len(AvailableElasticsearchNodes(pods)), status.Version)

\* UpdateElasticsearchApplyingChanges, lines 132-138: the status it leaves.
applyingChanges(status, pods) ==
    Status(ApplyingChangesPhase, RedHealth,
           Len(AvailableElasticsearchNodes(pods)), status.Version)

\* ElasticsearchStatus.IsDegraded: the health moved to a worse value of
\* red < yellow < unknown < green, or fewer nodes are available.
HealthRank(h) ==
    CASE h = RedHealth -> 1
      [] h = YellowHealth -> 2
      [] h = GreenHealth -> 4
      [] OTHER -> 3
IsDegraded(current, previous) ==
    \/ HealthRank(current.Health) < HealthRank(previous.Health)
    \/ current.AvailableNodes < previous.AvailableNodes

NoState == [nil |-> TRUE]
Nil == [nil |-> TRUE]

\* A slip of line 178: the new status is returned but not committed onto
\* s.cluster.
apply_NoCommit(st) ==
    LET previous == st.cluster.Status
        current == st.status
    IN  IF previous = current
        THEN [s |-> st, events |-> st.events, es |-> Nil]
        ELSE LET events == IF IsDegraded(current, previous)
                           THEN Append(st.events, Event("Warning", "Unhealthy"))
                           ELSE st.events
             IN  [s |-> [st EXCEPT !.events = events],
                  events |-> events,
                  es |-> [nil |-> FALSE, Status |-> current]]

\* A slip of line 175: every change of the status is reported as a
\* degradation.
apply_WarnsOnAnyChange(st) ==
    LET previous == st.cluster.Status
        current == st.status
    IN  IF previous = current
        THEN [s |-> st, events |-> st.events, es |-> Nil]
        ELSE LET events == Append(st.events, Event("Warning", "Unhealthy"))
             IN  [s |-> [st EXCEPT !.cluster.Status = current, !.events = events],
                  events |-> events,
                  es |-> [nil |-> FALSE, Status |-> current]]

\* Apply, lines 169-180: the State it leaves, and the events and the
\* resource (or nil) it returns.
apply(st) ==
    LET previous == st.cluster.Status
        current == st.status
    IN  IF previous = current
        THEN [s |-> st, events |-> st.events, es |-> Nil]
        ELSE LET events == IF IsDegraded(current, previous)
                           THEN Append(st.events, Event("Warning", "Unhealthy"))
                           ELSE st.events
             IN  [s |-> [st EXCEPT !.cluster.Status = current, !.events = events],
                  events |-> events,
                  es |-> [nil |-> FALSE, Status |-> current]]

(***************************************************************************)
(* The cluster client (esclient.Client.Request): a response with a status  *)
(* and a body, an error with a response for a status outside 2xx, or an    *)
(* error without any response for a failure of the transport (a timeout,   *)
(* a refused connection).                                                  *)
(***************************************************************************)
Response(status, body) ==
    [resp |-> TRUE, StatusCode |-> status, Body |-> body,
     err |-> IF status = StatusOK THEN NoError ELSE "api error"]
TransportFailure ==
    [resp |-> FALSE, StatusCode |-> 0, Body |-> NoBody, err |-> "transport error"]

\* What a GET of url can return: the stored document, no document, a
\* server-side failure, or no response at all.
GetOutcomes(url) ==
    { IF es[url] = NoBody THEN Response(StatusNotFound, NoBody)
                          ELSE Response(StatusOK, es[url]),
      Response(StatusInternalServerError, NoBody),
      TransportFailure }

\* What a PUT can return.
PutOutcomes ==
    { Response(StatusOK, NoBody), Response(StatusInternalServerError, NoBody), TransportFailure }

\* A request the pass issued for operation op, with the response it got:
\* status 0 stands for no response, readOK for ioutil.ReadAll of the body.
Request(method, url, body, op, r, readOK) ==
    [method |-> method, url |-> url, body |-> body, op |-> op,
     status |-> r.StatusCode, respBody |-> r.Body, readOK |-> readOK]

(***************************************************************************)
(* Reconcile, lines 308-347: fetch the resource, skip it when unmanaged or *)
(* not compatible, else go on with doReconcile. The scheduler invokes it   *)
(* for a first pass, after a return, or after a restart from a panic.      *)
(***************************************************************************)
\* The pass that just ended ran every operation and returned without an
\* error, and each write it issued was stored by the cluster.
PassConverged ==
    /\ pc = "returned"
    /\ retAt = "end"
    /\ result = [Requeue |-> FALSE, err |-> NoError]
    /\ \A k \in 1..Len(requests) :
            requests[k].method = "PUT" => requests[k].status = StatusOK

Reconcile ==
    /\ pc \in {"idle", "returned", "panic"}
    /\ iteration < MaxIterations
    /\ iteration' = iteration + 1
    /\ converged' = (converged \/ PassConverged)
    /\ requests' = <<>>
    /\ recorded' = <<>>
    /\ opIdx' = 0
    /\ \E fetch \in {"ok", "not found", "error"} :
          /\ env' = [NoLookups EXCEPT !.fetch = fetch]
          /\ IF fetch # "ok"
             THEN Return(TRUE, fetch, "fetch")
             ELSE /\ pc' = "IsUnmanaged"
                  /\ result' = NoResult
                  /\ retAt' = "-"
    /\ UNCHANGED <<esc, debug, es>>
    /\ UNCHANGED otherThanCtrl

IsUnmanaged ==
    /\ pc = "IsUnmanaged"
    /\ \E unmanaged \in BOOLEAN :
          /\ env' = [env EXCEPT !.unmanaged = IF unmanaged THEN "unmanaged" ELSE "managed"]
          /\ IF unmanaged
             THEN Return(FALSE, NoError, "unmanaged")
             ELSE /\ pc' = "isCompatible"
                  /\ UNCHANGED <<result, retAt>>
    /\ UNCHANGED <<esc, debug, es, opIdx, requests, recorded, iteration, converged>>
    /\ UNCHANGED otherThanCtrl

\* A slip of line 337: only the error of the check stops the pass, a verdict
\* of "not compatible" does not.
isCompatible_IgnoresVerdict ==
    /\ pc = "isCompatible"
    /\ \E compat \in {"compatible", "incompatible", "error"} :
          /\ env' = [env EXCEPT !.compat = compat]
          /\ CASE compat = "error" ->
                    /\ recorded' = Append(recorded, Event("Warning", "CompatibilityCheckError"))
                    /\ Return(FALSE, "compat error", "isCompatible")
               [] OTHER ->
                    /\ pc' = "validate"
                    /\ UNCHANGED <<result, retAt, recorded>>
    /\ UNCHANGED <<esc, debug, es, opIdx, requests, iteration, converged>>
    /\ UNCHANGED otherThanCtrl

isCompatible ==
    /\ pc = "isCompatible"
    /\ \E compat \in {"compatible", "incompatible", "error"} :
          /\ env' = [env EXCEPT !.compat = compat]
          /\ CASE compat = "error" ->
                    /\ recorded' = Append(recorded, Event("Warning", "CompatibilityCheckError"))
                    /\ Return(FALSE, "compat error", "isCompatible")
               [] compat = "incompatible" ->
                    /\ Return(FALSE, NoError, "isCompatible")
                    /\ UNCHANGED recorded
               [] OTHER ->
                    /\ pc' = "validate"
                    /\ UNCHANGED <<result, retAt, recorded>>
    /\ UNCHANGED <<esc, debug, es, opIdx, requests, iteration, converged>>
    /\ UNCHANGED otherThanCtrl

(***************************************************************************)
(* doReconcile, lines 349-384.                                             *)
(***************************************************************************)
\* A slip of line 352: a validation failure asks for a requeue like the
\* other failures of doReconcile.
validate_Requeues ==
    /\ pc = "validate"
    /\ \E valid \in BOOLEAN :
          /\ env' = [env EXCEPT !.valid = IF valid THEN "valid" ELSE "invalid"]
          /\ IF ~valid
             THEN /\ recorded' = Append(recorded, Event("Warning", "Validation"))
                  /\ Return(TRUE, "validation error", "validate")
             ELSE /\ pc' = "GetES"
                  /\ UNCHANGED <<result, retAt, recorded>>
    /\ UNCHANGED <<esc, debug, es, opIdx, requests, iteration, converged>>
    /\ UNCHANGED otherThanCtrl

validate ==
    /\ pc = "validate"
    /\ \E valid \in BOOLEAN :
          /\ env' = [env EXCEPT !.valid = IF valid THEN "valid" ELSE "invalid"]
          /\ IF ~valid
             THEN /\ recorded' = Append(recorded, Event("Warning", "Validation"))
                  /\ Return(FALSE, "validation error", "validate")
             ELSE /\ pc' = "GetES"
                  /\ UNCHANGED <<result, retAt, recorded>>
    /\ UNCHANGED <<esc, debug, es, opIdx, requests, iteration, converged>>
    /\ UNCHANGED otherThanCtrl

GetES ==
    /\ pc = "GetES"
    /\ \E found \in BOOLEAN :
          /\ env' = [env EXCEPT !.es = IF found THEN "found" ELSE "not found"]
          /\ IF ~found
             THEN /\ recorded' = Append(recorded, Event("Warning", "AssociationError"))
                  /\ Return(TRUE, "es not found", "GetES")
             ELSE /\ pc' = "NewESClient"
                  /\ UNCHANGED <<result, retAt, recorded>>
    /\ UNCHANGED <<esc, debug, es, opIdx, requests, iteration, converged>>
    /\ UNCHANGED otherThanCtrl

\* A slip of line 377: the loop starts at the second operation.
LoopFrom_SkipsFirst(i) ==
    LET next == IF i = 0 THEN 2 ELSE i + 1 IN
    IF next <= Len(esc.Operations)
    THEN /\ pc' = "loop"
         /\ opIdx' = next
         /\ UNCHANGED <<result, retAt>>
    ELSE /\ Return(FALSE, NoError, "end")
         /\ opIdx' = i

\* The loop of doReconcile moves on to operation i + 1, or returns when
\* operation i was the last one.
LoopFrom(i) ==
    IF i < Len(esc.Operations)
    THEN /\ pc' = "loop"
         /\ opIdx' = i + 1
         /\ UNCHANGED <<result, retAt>>
    ELSE /\ Return(FALSE, NoError, "end")
         /\ opIdx' = i

NewESClient ==
    /\ pc = "NewESClient"
    /\ \E ok \in BOOLEAN :
          /\ env' = [env EXCEPT !.client = IF ok THEN "ok" ELSE "error"]
          /\ IF ~ok
             THEN /\ Return(TRUE, "client error", "NewESClient")
                  /\ UNCHANGED opIdx
             ELSE LoopFrom(0)
    /\ UNCHANGED <<esc, debug, es, requests, recorded, iteration, converged>>
    /\ UNCHANGED otherThanCtrl

\* ReconcileOperation returned err to the loop of doReconcile (lines 379-381).
OperationFailed(err) == Return(TRUE, err, "op")

(***************************************************************************)
(* updateRequired, lines 447-487, on a response: <<needsUpdate, err>>, or  *)
(* a panic when there is no response to read the status of.                *)
(***************************************************************************)
\* A slip of line 481: only a full match counts as satisfied.
MatchesDesired_FullMatchOnly(diff) == diff = FullMatch

\* A slip of line 481: the test of the difference is inverted.
MatchesDesired_Inverted(diff) == ~(diff = SupersetMatch \/ diff = FullMatch)

MatchesDesired(diff) == diff = SupersetMatch \/ diff = FullMatch

\* A slip of lines 467-472, the one its TODO muses about: any status other
\* than 200 means an update is needed.
updateRequired_AnyStatusUpdates(getResp, readOK, body) ==
    IF ~getResp.resp THEN [panic |-> TRUE, needsUpdate |-> FALSE, err |-> NoError]
    ELSE IF getResp.StatusCode # StatusOK
        THEN [panic |-> FALSE, needsUpdate |-> TRUE, err |-> NoError]
    ELSE IF ~readOK
        THEN [panic |-> FALSE, needsUpdate |-> FALSE, err |-> "read error"]
    ELSE IF MatchesDesired(jsondiffCompare(getResp.Body, body))
        THEN [panic |-> FALSE, needsUpdate |-> FALSE, err |-> NoError]
    ELSE [panic |-> FALSE, needsUpdate |-> TRUE, err |-> NoError]

\* A slip of lines 461-464: a 404 is one more unacceptable status.
updateRequired_NotFoundIsError(getResp, readOK, body) ==
    IF ~getResp.resp THEN [panic |-> TRUE, needsUpdate |-> FALSE, err |-> NoError]
    ELSE IF getResp.StatusCode # StatusOK
        THEN [panic |-> FALSE, needsUpdate |-> FALSE, err |-> "status unacceptable"]
    ELSE IF ~readOK
        THEN [panic |-> FALSE, needsUpdate |-> FALSE, err |-> "read error"]
    ELSE IF MatchesDesired(jsondiffCompare(getResp.Body, body))
        THEN [panic |-> FALSE, needsUpdate |-> FALSE, err |-> NoError]
    ELSE [panic |-> FALSE, needsUpdate |-> TRUE, err |-> NoError]

updateRequired(getResp, readOK, body) ==
    IF ~getResp.resp THEN [panic |-> TRUE, needsUpdate |-> FALSE, err |-> NoError]
    ELSE IF getResp.StatusCode = StatusNotFound
        THEN [panic |-> FALSE, needsUpdate |-> TRUE, err |-> NoError]
    ELSE IF getResp.StatusCode # StatusOK
        THEN [panic |-> FALSE, needsUpdate |-> FALSE, err |-> "status unacceptable"]
    ELSE IF ~readOK
        THEN [panic |-> FALSE, needsUpdate |-> FALSE, err |-> "read error"]
    ELSE IF MatchesDesired(jsondiffCompare(getResp.Body, body))
        THEN [panic |-> FALSE, needsUpdate |-> FALSE, err |-> NoError]
    ELSE [panic |-> FALSE, needsUpdate |-> TRUE, err |-> NoError]

(***************************************************************************)
(* ReconcileOperation, lines 409-418: the read of operation opIdx.         *)
(***************************************************************************)
ReconcileOperationGet ==
    /\ pc = "loop"
    /\ LET op == esc.Operations[opIdx] IN
       \E getResp \in GetOutcomes(op.URL), readOK \in BOOLEAN :
             /\ (~readOK => getResp.StatusCode = StatusOK)
             /\ requests' = Append(requests, Request("GET", op.URL, NoBody, opIdx, getResp, readOK))
             /\ LET r == updateRequired(getResp, readOK, op.Body) IN
                CASE r.panic ->
                        /\ pc' = "panic"
                        /\ UNCHANGED <<result, retAt, opIdx>>
                  [] ~r.panic /\ r.err # NoError ->
                        /\ OperationFailed(r.err)
                        /\ UNCHANGED opIdx
                  [] ~r.panic /\ r.err = NoError /\ r.needsUpdate ->
                        /\ pc' = "put"
                        /\ UNCHANGED <<result, retAt, opIdx>>
                  [] OTHER ->
                        LoopFrom(opIdx)
    /\ UNCHANGED <<esc, debug, es, recorded, env, iteration, converged>>
    /\ UNCHANGED otherThanCtrl

(***************************************************************************)
(* ReconcileOperation, lines 419-445: the PUT, and what is returned.       *)
(***************************************************************************)
PutReturn(putResp, readOK) ==
    IF debug
    THEN IF ~putResp.resp THEN "panic"
         ELSE IF ~readOK THEN "read error"
         ELSE NoError
    ELSE putResp.err

ReconcileOperationPut ==
    /\ pc = "put"
    /\ LET op == esc.Operations[opIdx] IN
       \E putResp \in PutOutcomes, readOK \in BOOLEAN :
             /\ (~readOK => debug /\ putResp.resp)
             /\ requests' = Append(requests, Request("PUT", op.URL, op.Body, opIdx, putResp, readOK))
             /\ es' = IF putResp.resp /\ putResp.StatusCode = StatusOK
                      THEN [es EXCEPT ![op.URL] = op.Body]
                      ELSE es
             /\ LET err == PutReturn(putResp, readOK) IN
                CASE err = "panic" ->
                        /\ pc' = "panic"
                        /\ UNCHANGED <<result, retAt, opIdx>>
                  [] err = NoError ->
                        LoopFrom(opIdx)
                  [] OTHER ->
                        /\ OperationFailed(err)
                        /\ UNCHANGED opIdx
    /\ UNCHANGED <<esc, debug, recorded, env, iteration, converged>>
    /\ UNCHANGED otherThanCtrl

(***************************************************************************)
(* SkipInvalidUpgrade, src/test/e2e/test/version.go lines 23-32: the test  *)
(* fails when a version does not parse, is skipped when the upgrade is not *)
(* valid, and runs otherwise.                                              *)
(***************************************************************************)
SkipInvalidUpgrade ==
    /\ upgrade = NotRun
    /\ LET r == isValidUpgrade(srcVersion, dstVersion) IN
       upgrade' = [valid |-> r.valid, err |-> r.err,
                   test |-> IF r.err # NoError THEN "fatal"
                            ELSE IF ~r.valid THEN "skipped" ELSE "run"]
    /\ UNCHANGED <<srcVersion, dstVersion>>
    /\ UNCHANGED otherThanVer

(***************************************************************************)
(* One pass of the status tracker: NewState on the persisted resource,     *)
(* calls of its methods with what the pass observed, Apply, and the        *)
(* caller's update of the persisted status with what Apply returned.       *)
(***************************************************************************)
NoObservation == [nil |-> TRUE]

\* Orchestration hints: named facts.  The annotations of the resource of
\* a pass either fail to deserialize or carry no hint yet.
NoHints == [k \in {} |-> ""]
Hints(a, b) == [a |-> a, b |-> b]
HintsOfPass == { [a |-> "true"], Hints("false", "1") }

\* Merge: each hint of incoming overwrites the hint of the same name,
\* the other hints of existing are kept.
Merge(existing, incoming) ==
    [k \in DOMAIN existing \cup DOMAIN incoming |->
        IF k \in DOMAIN incoming THEN incoming[k] ELSE existing[k]]

\* The texts of the validation errors a pass can report, and the event
\* that carries such a text.
ValidationErrors == { "unsupported version", "invalid node set" }
EventWithMessage(type, reason, message) ==
    [type |-> type, reason |-> reason, message |-> message]

NoApply == [events |-> <<>>, es |-> Nil, called |-> FALSE]

PersistedStatuses ==
    { Status("", "", 0, <<>>),
      Status(ReadyPhase, GreenHealth, 3, V7_10_0),
      Status(ApplyingChangesPhase, RedHealth, 1, V7_9_1) }

TrackInit ==
    /\ resource \in PersistedStatuses
    /\ s = NoState
    /\ observation = NoObservation
    /\ applied = NoApply
    /\ lastOp = "-"
    /\ lastErr = NoError
    /\ calls = 0

\* The tracker is not running.
TrackIdle ==
    /\ resource = Status("", "", 0, <<>>)
    /\ s = NoState
    /\ observation = NoObservation
    /\ applied = NoApply
    /\ lastOp = "-"
    /\ lastErr = NoError
    /\ calls = 0

\* NewState, lines 34-41: fails when the hints of the annotations do not
\* deserialize.
NewState ==
    /\ s = NoState
    /\ lastOp = "-"
    /\ \E hintsOK \in BOOLEAN :
          IF hintsOK
          THEN /\ s' = [nil |-> FALSE, cluster |-> [Status |-> resource],
                        status |-> resource, events |-> <<>>,
                        hints |-> NoHints]
               /\ observation' \in
                    { [resourcesState |-> rs, observedState |-> os] :
                        rs \in ResourcesStates, os \in ObservedStates }
               /\ lastOp' = "NewState"
          ELSE /\ lastOp' = "NewState failed"
               /\ UNCHANGED <<s, observation>>
    /\ UNCHANGED <<resource, applied, lastErr, calls>>
    /\ UNCHANGED otherThanTrack

\* A method of the State of a running pass is called.
Call(op) ==
    /\ s # NoState
    /\ lastOp # "UpdateStatus"
    /\ calls < MaxCalls
    /\ calls' = calls + 1
    /\ lastOp' = op
    /\ UNCHANGED <<resource, observation>>
    /\ UNCHANGED otherThanTrack

\* UpdateElasticsearchState, lines 111-117
UpdateElasticsearchState ==
    /\ Call("UpdateElasticsearchState")
    /\ s' = [s EXCEPT !.status = updateWithPhase(s.status, s.status.Phase,
                            observation.resourcesState, observation.observedState)]
    /\ UNCHANGED <<applied, lastErr>>

\* UpdateElasticsearchReady, lines 119-125
UpdateElasticsearchReady ==
    /\ Call("UpdateElasticsearchReady")
    /\ s' = [s EXCEPT !.status = updateWithPhase(s.status, ReadyPhase,
                            observation.resourcesState, observation.observedState)]
    /\ UNCHANGED <<applied, lastErr>>

\* UpdateElasticsearchApplyingChanges, lines 132-138, called with the
\* current pods of the observation.
UpdateElasticsearchApplyingChanges ==
    /\ Call("UpdateElasticsearchApplyingChanges")
    /\ s' = [s EXCEPT !.status = applyingChanges(s.status, observation.resourcesState.CurrentPods)]
    /\ UNCHANGED <<applied, lastErr>>

\* UpdateElasticsearchMigrating, lines 140-151
UpdateElasticsearchMigrating ==
    /\ Call("UpdateElasticsearchMigrating")
    /\ s' = [s EXCEPT !.events = Append(s.events, Event("Normal", "Delayed")),
                      !.status = updateWithPhase(s.status, MigratingDataPhase,
                            observation.resourcesState, observation.observedState)]
    /\ UNCHANGED <<applied, lastErr>>

\* UpdateElasticsearchShutdownStalled, lines 153-164
UpdateElasticsearchShutdownStalled ==
    /\ Call("UpdateElasticsearchShutdownStalled")
    /\ s' = [s EXCEPT !.events = Append(s.events, Event("Warning", "Stalled")),
                      !.status = updateWithPhase(s.status, NodeShutdownStalledPhase,
                            observation.resourcesState, observation.observedState)]
    /\ UNCHANGED <<applied, lastErr>>

\* A slip of line 183: the phase is set through updateWithPhase, as the
\* other transitions do, which recomputes the rest of the status.
UpdateElasticsearchInvalid_UpdatesWithPhase ==
    /\ Call("UpdateElasticsearchInvalid")
    /\ \E err \in ValidationErrors :
          /\ s' = [s EXCEPT !.status = updateWithPhase(s.status, ResourceInvalid,
                                observation.resourcesState, observation.observedState),
                            !.events = Append(s.events,
                                EventWithMessage("Warning", "Validation", err))]
          /\ lastErr' = err
    /\ UNCHANGED applied

\* UpdateElasticsearchInvalid, lines 182-185
UpdateElasticsearchInvalid ==
    /\ Call("UpdateElasticsearchInvalid")
    /\ \E err \in ValidationErrors :
          /\ s' = [s EXCEPT !.status.Phase = ResourceInvalid,
                            !.events = Append(s.events,
                                EventWithMessage("Warning", "Validation", err))]
          /\ lastErr' = err
    /\ UNCHANGED applied

\* A slip of line 188: the phase is written onto the cluster's status as
\* well.
UpdateElasticsearchStatusPhase_WritesThrough ==
    /\ Call("UpdateElasticsearchStatusPhase")
    /\ \E orchPhase \in {ApplyingChangesPhase, ReadyPhase} :
          s' = [s EXCEPT !.status.Phase = orchPhase,
                         !.cluster.Status.Phase = orchPhase]
    /\ UNCHANGED <<applied, lastErr>>

\* UpdateElasticsearchStatusPhase, lines 187-189
UpdateElasticsearchStatusPhase ==
    /\ Call("UpdateElasticsearchStatusPhase")
    /\ \E orchPhase \in {ApplyingChangesPhase, ReadyPhase} :
          s' = [s EXCEPT !.status.Phase = orchPhase]
    /\ UNCHANGED <<applied, lastErr>>

\* UpdateOrchestrationHints, lines 191-194
UpdateOrchestrationHints ==
    /\ Call("UpdateOrchestrationHints")
    /\ \E hint \in HintsOfPass :
          s' = [s EXCEPT !.hints = Merge(s.hints, hint)]
    /\ UNCHANGED <<applied, lastErr>>

\* Apply, lines 169-180
Apply ==
    /\ Call("Apply")
    /\ LET r == apply(s) IN
       /\ s' = r.s
       /\ applied' = [events |-> r.events, es |-> r.es, called |-> TRUE]
    /\ UNCHANGED lastErr

\* The caller persists the resource that Apply returned.
UpdateStatus ==
    /\ s # NoState
    /\ lastOp = "Apply"
    /\ ~applied.es.nil
    /\ resource' = applied.es.Status
    /\ lastOp' = "UpdateStatus"
    /\ UNCHANGED <<s, observation, applied, lastErr, calls>>
    /\ UNCHANGED otherThanTrack

VerInit ==
    /\ srcVersion \in VersionStrings
    /\ dstVersion \in VersionStrings
    /\ upgrade = NotRun

Init == CtrlInit /\ VerIdle /\ TrackIdle

Next ==
    \/ Reconcile
    \/ IsUnmanaged
    \/ isCompatible
    \/ validate
    \/ GetES
    \/ NewESClient
    \/ ReconcileOperationGet
    \/ ReconcileOperationPut

Spec == Init /\ [][Next]_vars

(***************************************************************************)
(* The upgrade path validator on its own.                                  *)
(***************************************************************************)
InitVersion == VerInit /\ CtrlIdle /\ TrackIdle

NextVersion == SkipInvalidUpgrade

SpecVersion == InitVersion /\ [][NextVersion]_vars

(***************************************************************************)
(* The status tracker on its own.                                          *)
(***************************************************************************)
InitState == TrackInit /\ CtrlIdle /\ VerIdle

NextState ==
    \/ NewState
    \/ UpdateElasticsearchState
    \/ UpdateElasticsearchReady
    \/ UpdateElasticsearchApplyingChanges
    \/ UpdateElasticsearchMigrating
    \/ UpdateElasticsearchShutdownStalled
    \/ UpdateElasticsearchInvalid
    \/ UpdateElasticsearchStatusPhase
    \/ UpdateOrchestrationHints
    \/ Apply
    \/ UpdateStatus

SpecState == InitState /\ [][NextState]_vars

(***************************************************************************)
(* The controller under its scheduler, with failures that pass.  The work  *)
(* queue invokes Reconcile for the resource once, and again whenever the   *)
(* pass before asked for a requeue (Requeue: true at lines 329, 369, 374,  *)
(* 380) or ended in a panic, after which the operator starts anew; a pass  *)
(* that has started runs to its return.  Lookups and requests to the       *)
(* cluster may fail in the first FaultyPasses passes and succeed in every  *)
(* later one.  Nothing but ReconcileOperationPut changes the cluster.      *)
(***************************************************************************)
\* The pass at hand met a failure: of the fetch of the resource, of the
\* lookup of the cluster, of the creation of the client, of a read (no
\* response, a status other than 200 and 404, a body that cannot be read)
\* or of a write.
Failing ==
    \/ env.fetch \in {"not found", "error"}
    \/ env.es = "not found"
    \/ env.client = "error"
    \/ \E k \in 1..Len(requests) :
          \/ ~requests[k].readOK
          \/ /\ requests[k].method = "GET"
             /\ requests[k].status \notin {StatusOK, StatusNotFound}
          \/ /\ requests[k].method = "PUT"
             /\ requests[k].status # StatusOK

FaultyPasses == MaxIterations - 1

FailuresPass == iteration' > FaultyPasses => ~Failing'

\* The work queue holds the resource: it was never reconciled, the last
\* pass asked for a requeue, or the operator restarted after a panic.
RetryRequested ==
    \/ pc = "idle"
    \/ pc = "panic"
    \/ pc = "returned" /\ result.Requeue

NextLive ==
    \/ Reconcile /\ RetryRequested /\ FailuresPass
    \/ IsUnmanaged /\ FailuresPass
    \/ isCompatible /\ FailuresPass
    \/ validate /\ FailuresPass
    \/ GetES /\ FailuresPass
    \/ NewESClient /\ FailuresPass
    \/ ReconcileOperationGet /\ FailuresPass
    \/ ReconcileOperationPut /\ FailuresPass

SpecLive == Init /\ [][NextLive]_vars /\ WF_vars(NextLive)

(***************************************************************************)
(* Properties of the esconfig controller and its convergence pass.         *)
(***************************************************************************)
Reads(i) == {k \in 1..Len(requests) : requests[k].op = i /\ requests[k].method = "GET"}
Writes(i) == {k \in 1..Len(requests) : requests[k].op = i /\ requests[k].method = "PUT"}
Finished == pc \in {"returned", "panic"}

\* The read at position k of the log got a response with a status other
\* than 200 and 404.
UnacceptableRead(k) ==
    /\ requests[k].method = "GET"
    /\ requests[k].status # 0
    /\ requests[k].status \notin {StatusOK, StatusNotFound}

\* C1: a read answered by a status other than 200 or 404 is the last
\* request of the pass: the pass has returned a failure (a requeue with the
\* error), no write was issued for that operation and no request for a later
\* one.
C1_HaltsOnUnacceptableStatus ==
    \A k \in 1..Len(requests) :
        UnacceptableRead(k) =>
            /\ k = Len(requests)
            /\ pc = "returned"
            /\ result = [Requeue |-> TRUE, err |-> "status unacceptable"]
            /\ Writes(requests[k].op) = {}
            /\ \A j \in 1..Len(requests) : requests[j].op <= requests[k].op

\* The first of two declared operations was read with status 500.
C1_Witness ==
    /\ Len(esc.Operations) = 2
    /\ \E k \in 1..Len(requests) : UnacceptableRead(k) /\ requests[k].op = 1
    /\ pc = "returned"

\* The observed document o satisfies the desired document d: every field
\* and value of d is in o, which may hold more.
RECURSIVE Satisfies(_, _)
Satisfies(o, d) ==
    /\ o.t = d.t
    /\ o.t \in {"num", "arr", "obj"}
    /\ (o.t = "num" => o.v = d.v)
    /\ (o.t = "arr" =>
            /\ Len(o.s) >= Len(d.s)
            /\ \A i \in 1..Len(d.s) : Satisfies(o.s[i], d.s[i]))
    /\ (o.t = "obj" =>
            /\ DOMAIN d.f \subseteq DOMAIN o.f
            /\ \A key \in DOMAIN d.f : Satisfies(o.f[key], d.f[key]))

\* The read at position k got 200 with a body that is the desired body, or
\* the desired body with extra fields.
SatisfiedRead(k) ==
    /\ requests[k].method = "GET"
    /\ requests[k].status = StatusOK
    /\ Satisfies(requests[k].respBody, esc.Operations[requests[k].op].Body)

\* C2: an operation whose read returns 200 with a body that equals the
\* desired body or is a superset of it gets no write, and the pass goes on
\* to the next operation without an error for it.
C2_NoWriteWhenSatisfied ==
    \A k \in 1..Len(requests) :
        SatisfiedRead(k) => Writes(requests[k].op) = {}

\* A pass over two operations ended after a read that found a strict
\* superset of the desired body (extra fields, nested and in an array).
C2_Witness ==
    /\ pc = "returned"
    /\ retAt = "end"
    /\ \E k \in 1..Len(requests) :
          /\ SatisfiedRead(k)
          /\ requests[k].readOK
          /\ requests[k].respBody = BodyNestedSuper
          /\ esc.Operations[requests[k].op].Body = BodyNested

\* C3: an operation whose read returns 404 gets exactly one write in the
\* pass, issued right after the read: a PUT of the operation's URL with
\* exactly the desired body (none yet only while that PUT is the next step).
C3_NotFoundWritesOnce ==
    \A k \in 1..Len(requests) :
        (requests[k].method = "GET" /\ requests[k].status = StatusNotFound) =>
            LET i == requests[k].op IN
            IF pc = "put" /\ opIdx = i
            THEN Writes(i) = {} /\ k = Len(requests)
            ELSE /\ Writes(i) = {k + 1}
                 /\ requests[k + 1].url = esc.Operations[i].URL
                 /\ requests[k + 1].body = esc.Operations[i].Body

\* A pass ended in which the first operation was read as 404 and written.
C3_Witness ==
    /\ pc = "returned"
    /\ retAt = "end"
    /\ \E k \in 1..Len(requests) :
          /\ requests[k].method = "GET"
          /\ requests[k].status = StatusNotFound
          /\ Writes(requests[k].op) # {}

\* Operation i completed successfully: its read was answered 200 or 404 and
\* could be read, and the write, when one was issued, was answered 200.
OperationSucceeded(i) ==
    /\ \E k \in Reads(i) : requests[k].status \in {StatusOK, StatusNotFound} /\ requests[k].readOK
    /\ \A k \in Writes(i) : requests[k].status = StatusOK /\ requests[k].readOK
AllOperationsSucceeded == \A i \in 1..Len(esc.Operations) : OperationSucceeded(i)

\* C4: a pass that got as far as the lookup of the referenced cluster
\* returns "no requeue, no error" exactly when every declared operation
\* completed successfully, and else a requeue carrying the error.
C4_RequeueIffFailure ==
    (pc = "returned" /\ env.valid = "valid") =>
        IF env.es = "found" /\ env.client = "ok" /\ AllOperationsSucceeded
        THEN result = [Requeue |-> FALSE, err |-> NoError]
        ELSE result.Requeue /\ result.err # NoError

\* C5: a pass whose resource is not found returns no error and no requeue,
\* and has issued no request to the cluster.
C5_NotFoundIsNoOp ==
    (Finished /\ env.fetch = "not found") =>
        /\ result = [Requeue |-> FALSE, err |-> NoError]
        /\ requests = <<>>

\* C6: a pass whose validation failed has returned without a requeue, has
\* recorded one Warning/Validation event and has issued no request.
C6_ValidationStops ==
    env.valid = "invalid" =>
        /\ pc = "returned"
        /\ result.Requeue = FALSE
        /\ recorded = <<Event("Warning", "Validation")>>
        /\ requests = <<>>

\* A pass with declared operations was stopped by its validation.
C6_Witness ==
    /\ env.valid = "invalid"
    /\ Len(esc.Operations) > 0
    /\ pc = "returned"
(***************************************************************************)
(* Properties of the upgrade path validator.                               *)
(***************************************************************************)
\* The order of versions, told from their fields: -1, 0 or 1 as v is below,
\* equal to or above o. A pre-release is below its release.
Sign(a, b) == IF a < b THEN -1 ELSE IF a > b THEN 1 ELSE 0
PreRank(v) == IF v.Pre = <<>> THEN 1 ELSE 0
VersionOrder(v, o) ==
    IF v.Major # o.Major THEN Sign(v.Major, o.Major)
    ELSE IF v.Minor # o.Minor THEN Sign(v.Minor, o.Minor)
    ELSE IF v.Patch # o.Patch THEN Sign(v.Patch, o.Patch)
    ELSE Sign(PreRank(v), PreRank(o))

BothWellFormed == srcVersion \in WellFormedVersions /\ dstVersion \in WellFormedVersions

\* C8: on well-formed versions isValidUpgrade reports no error, and the
\* upgrade is valid exactly when the major of the destination is that of
\* the source or one more and the destination is strictly above the source.
C8_ValidUpgradeIff ==
    (upgrade # NotRun /\ BothWellFormed) =>
        LET from == Parse(srcVersion).v
            to == Parse(dstVersion).v
        IN  /\ upgrade.err = NoError
            /\ upgrade.valid <=>
                    /\ to.Major \in {from.Major, from.Major + 1}
                    /\ VersionOrder(to, from) = 1

\* A release to the pre-release of the next major, 6.10.1 to 7.0.0-rc1, was
\* found valid.
C8_Witness ==
    /\ upgrade # NotRun
    /\ srcVersion = <<"6", ".", "1", "0", ".", "1">>
    /\ dstVersion = <<"7", ".", "0", ".", "0", "-", "r", "c", "1">>
    /\ upgrade.valid
(***************************************************************************)
(* Properties of the status tracker.                                       *)
(***************************************************************************)
\* C7: a call of Apply returns a resource exactly when s.status differs
\* from s.cluster.Status, and then the resource returned and s.cluster
\* carry the new status; the events returned are the queued ones; and an
\* Apply that follows an Apply directly returns no resource.
C7_ApplyIdempotent ==
    [][ (lastOp' = "Apply" /\ calls' = calls + 1) =>
            /\ (~applied'.es.nil) <=> (s.status # s.cluster.Status)
            /\ (~applied'.es.nil) =>
                    /\ applied'.es.Status = s.status
                    /\ s'.cluster.Status = s.status
            /\ applied'.events = s'.events
            /\ (lastOp = "Apply" => applied'.es.nil)
      ]_vars

\* An update, an Apply that committed a status other than the persisted
\* one, and a second Apply that returned no resource.
C7_Witness ==
    /\ calls = 3
    /\ lastOp = "Apply"
    /\ applied.es.nil
    /\ s.cluster.Status # resource
    /\ s.cluster.Status = s.status

\* C9: right after UpdateElasticsearchApplyingChanges the in-progress
\* status has phase ApplyingChanges and health red.
C9_ApplyingChangesIsRed ==
    lastOp = "UpdateElasticsearchApplyingChanges" =>
        /\ s.status.Phase = ApplyingChangesPhase
        /\ s.status.Health = RedHealth

\* UpdateElasticsearchApplyingChanges was called in a pass that observed a
\* green cluster, on a status that was green.
C9_Witness ==
    /\ lastOp = "UpdateElasticsearchApplyingChanges"
    /\ ~observation.observedState.ClusterHealth.nil
    /\ observation.observedState.ClusterHealth.Status = GreenHealth
    /\ resource.Health = GreenHealth
    /\ calls = 1

UpdateWithPhaseOps ==
    { "UpdateElasticsearchState", "UpdateElasticsearchReady",
      "UpdateElasticsearchMigrating", "UpdateElasticsearchShutdownStalled" }

\* The version labels of all observed pods and of all StatefulSets.
ObservedLabels ==
    {observation.resourcesState.AllPods[i].Version :
        i \in 1..Len(observation.resourcesState.AllPods)}
    \cup {observation.resourcesState.StatefulSets[i].Version :
        i \in 1..Len(observation.resourcesState.StatefulSets)}

\* The lowest of a set of versions, by the order of their fields.
Lowest(S) == CHOOSE v \in S : \A w \in S : VersionOrder(v, w) <= 0

\* C10: right after a call of updateWithPhase in a pass whose version
\* labels are all well-formed, and not none, the version of the in-progress
\* status is the lowest of the versions of all pods and all StatefulSets.
C10_VersionIsMinimum ==
    ( /\ lastOp \in UpdateWithPhaseOps
      /\ ObservedLabels # {}
      /\ \A l \in ObservedLabels : ~Parse(l).err ) =>
        s.status.Version = String(Lowest({Parse(l).v : l \in ObservedLabels}))

\* Pods at 7.10.0 and 7.9.1 with a StatefulSet at 7.10.0: version 7.9.1.
C10_Witness ==
    /\ lastOp = "UpdateElasticsearchReady"
    /\ observation.resourcesState.AllPods =
            <<Pod(TRUE, FALSE, V7_10_0), Pod(TRUE, TRUE, V7_9_1)>>
    /\ observation.resourcesState.StatefulSets = <<StatefulSet(V7_10_0)>>
    /\ s.status.Version = V7_9_1

\* The Warning/Unhealthy event of Apply, and the number of them in a list.
Unhealthy == Event("Warning", "Unhealthy")
CountOf(events, e) == Cardinality({i \in 1..Len(events) : events[i] = e})

\* C11: from a persisted status Ready/green/3 nodes, a pass that calls
\* UpdateElasticsearchApplyingChanges and then Apply gets the
\* Warning/Unhealthy event from Apply exactly when the number of available
\* nodes dropped below the persisted one; the red health the phase change
\* forces does not count.
C11_ForcedRedIsNotUnhealthy ==
    [][ ( /\ resource = Status(ReadyPhase, GreenHealth, 3, V7_10_0)
          /\ calls = 1
          /\ lastOp = "UpdateElasticsearchApplyingChanges"
          /\ lastOp' = "Apply" ) =>
            ( CountOf(applied'.events, Unhealthy) > 0
                <=> s.status.AvailableNodes < resource.AvailableNodes )
      ]_vars

(***************************************************************************)
(* Properties of the convergence engine across passes.                     *)
(***************************************************************************)
\* Operation i has been processed by the running pass.
Processed(i) == i < opIdx \/ (i = opIdx /\ pc # "loop")

\* The pass read the target of every operation it processed, and read it
\* before it wrote it.
EveryPassRereads ==
    /\ \A i \in 1..Len(esc.Operations) : Processed(i) => Reads(i) # {}
    /\ \A i \in 1..Len(esc.Operations) :
            \A w \in Writes(i) : \E r \in Reads(i) : r < w

\* No two declared operations ask for different bodies at one URL.
CompatibleOperations ==
    \A i, j \in 1..Len(esc.Operations) :
        esc.Operations[i].URL = esc.Operations[j].URL =>
            esc.Operations[i].Body = esc.Operations[j].Body

\* C12, as stated: every pass re-reads the targets it processes, and once a
\* pass has completed successfully, its writes stored, no later pass
\* issues a write, whatever the declared operations are.
C12_IdempotentAcrossPasses ==
    /\ EveryPassRereads
    /\ converged => \A i \in 1..Len(esc.Operations) : Writes(i) = {}

\* C12, amended: the same, for declared operations of which no two ask
\* for different bodies at one URL.
C12_IdempotentWhenCompatible ==
    /\ EveryPassRereads
    /\ (converged /\ CompatibleOperations) =>
            \A i \in 1..Len(esc.Operations) : Writes(i) = {}

\* A second pass, after a pass that converged, read the targets of two
\* operations and ended without a write.
C12_Witness ==
    /\ converged
    /\ CompatibleOperations
    /\ Len(esc.Operations) = 2
    /\ pc = "returned"
    /\ retAt = "end"
    /\ Len(requests) = 2
    /\ \A k \in 1..Len(requests) : requests[k].method = "GET"

\* C13: a pass on a resource that is unmanaged, or that the compatibility
\* check found not compatible, has returned without a requeue and without
\* an error, and has run no validation, no lookup of the cluster, no
\* creation of a client, no read and no write.
C13_UnmanagedOrIncompatibleIsNoOp ==
    (env.unmanaged = "unmanaged" \/ env.compat = "incompatible") =>
        /\ pc = "returned"
        /\ result = [Requeue |-> FALSE, err |-> NoError]
        /\ env.valid = "-"
        /\ env.es = "-"
        /\ env.client = "-"
        /\ requests = <<>>

\* A managed resource with declared operations was found not compatible,
\* in the second pass on it.
C13_Witness ==
    /\ env.unmanaged = "managed"
    /\ env.compat = "incompatible"
    /\ Len(esc.Operations) > 0
    /\ pc = "returned"
    /\ retAt = "isCompatible"
    /\ iteration = 2

\* The write at position k of the log failed: the cluster answered with a
\* status other than 200, or not at all.
FailedWrite(k) == requests[k].method = "PUT" /\ requests[k].status # StatusOK

\* C14: a write that failed is the last request of its pass, and the pass
\* has returned a requeue carrying an error, whether debug logging is
\* enabled or not.
C14_WriteFailureIsReturned ==
    \A k \in 1..Len(requests) :
        FailedWrite(k) =>
            /\ k = Len(requests)
            /\ pc = "returned"
            /\ result.Requeue
            /\ result.err \notin {NoError, "-"}

\* The read at position k of the log got no response: the request timed
\* out or failed in the transport.
TransportFailedRead(k) == requests[k].method = "GET" /\ requests[k].status = 0

\* C15: a read that got no response is the last request of its pass, so
\* that no write follows it, and the pass has returned a requeue carrying
\* an error.
C15_ReadTransportFailureIsRetried ==
    \A k \in 1..Len(requests) :
        TransportFailedRead(k) =>
            /\ k = Len(requests)
            /\ pc = "returned"
            /\ result.Requeue
            /\ result.err \notin {NoError, "-"}

\* The version labels of the observed pods, and of the StatefulSets.
PodLabels ==
    {observation.resourcesState.AllPods[i].Version :
        i \in 1..Len(observation.resourcesState.AllPods)}
StatefulSetLabels ==
    {observation.resourcesState.StatefulSets[i].Version :
        i \in 1..Len(observation.resourcesState.StatefulSets)}

\* A side with a label that does not parse; a side with labels that all
\* parse, and its lowest version.
SideFails(labels) == \E l \in labels : Parse(l).err
SideHasMinimum(labels) == labels # {} /\ \A l \in labels : ~Parse(l).err
SideMinimum(labels) == String(Lowest({Parse(l).v : l \in labels}))

\* C16: right after a call of updateWithPhase in a pass where the labels of
\* one side do not parse and the other side has a well-formed minimum, the
\* version of the in-progress status is the minimum of the other side.
C16_ParseFailureUsesOtherSide ==
    lastOp \in UpdateWithPhaseOps =>
        /\ (SideFails(PodLabels) /\ SideHasMinimum(StatefulSetLabels)) =>
                s.status.Version = SideMinimum(StatefulSetLabels)
        /\ (SideFails(StatefulSetLabels) /\ SideHasMinimum(PodLabels)) =>
                s.status.Version = SideMinimum(PodLabels)

\* The order of health values, worst first; a status without a health yet
\* counts as unknown.
HealthOrder == <<RedHealth, YellowHealth, UnknownHealth, GreenHealth>>
HealthPosition(h) ==
    CHOOSE i \in 1..Len(HealthOrder) :
        HealthOrder[i] = (IF h = "" THEN UnknownHealth ELSE h)
MoreDegraded(current, previous) ==
    \/ HealthPosition(current.Health) < HealthPosition(previous.Health)
    \/ current.AvailableNodes < previous.AvailableNodes

\* C17: a call of Apply adds exactly one Warning/Unhealthy event to the
\* queue when the status differs from the previous one and is more
\* degraded (a worse health, or fewer available nodes), and none when the
\* status is unchanged or not degraded.
C17_UnhealthyIffDegraded ==
    [][ (lastOp' = "Apply" /\ calls' = calls + 1) =>
            LET previous == s.cluster.Status
                current == s.status
                added == CountOf(s'.events, Unhealthy) - CountOf(s.events, Unhealthy)
            IN  /\ added = (IF current # previous /\ MoreDegraded(current, previous)
                            THEN 1 ELSE 0)
                /\ applied'.events = s'.events
      ]_vars

\* Apply returned the one Unhealthy event of a pass that lost available
\* nodes while the health stayed green.
C17_Witness ==
    /\ lastOp = "Apply"
    /\ calls = 2
    /\ CountOf(applied.events, Unhealthy) = 1
    /\ resource.Health = GreenHealth
    /\ s.cluster.Status.Health = GreenHealth
    /\ s.cluster.Status.AvailableNodes < resource.AvailableNodes

\* C18: the version of a status that Apply has committed is not below the
\* version persisted by the earlier passes, in the order of versions.
C18_VersionNeverDecreases ==
    ( /\ lastOp = "Apply"
      /\ ~applied.es.nil
      /\ ~Parse(resource.Version).err
      /\ ~Parse(applied.es.Status.Version).err ) =>
        VersionOrder(Parse(applied.es.Status.Version).v, Parse(resource.Version).v) >= 0

\* The number of pods of the pass's observation that are ready.
ReadyPods ==
    Cardinality({i \in 1..Len(observation.resourcesState.CurrentPods) :
                    observation.resourcesState.CurrentPods[i].Ready})

\* C19: the status that Apply has committed carries the number of pods
\* that are ready in the observation of the pass, whichever methods of the
\* tracker the pass called before.
C19_AvailableNodesNeverStale ==
    (lastOp = "Apply" /\ ~applied.es.nil) =>
        applied.es.Status.AvailableNodes = ReadyPods

\* C20: the requests of a pass are issued operation by operation in the
\* declared order: each request is for the URL of its operation, no
\* request of an operation follows a request of a later one, an operation
\* is started only after the one before it was read, and a write follows
\* a read of its own operation.
C20_OperationsInDeclaredOrder ==
    /\ \A k \in 1..Len(requests) :
            /\ requests[k].op \in 1..Len(esc.Operations)
            /\ requests[k].url = esc.Operations[requests[k].op].URL
            /\ requests[k].op > 1 => \E r \in Reads(requests[k].op - 1) : r < k
    /\ \A k, l \in 1..Len(requests) : k < l => requests[k].op <= requests[l].op
    /\ \A i \in 1..Len(esc.Operations) :
            \A w \in Writes(i) : \E r \in Reads(i) : r < w

\* A pass of two operations read and wrote the first, then read and wrote
\* the second, and ended.
C20_Witness ==
    /\ pc = "returned"
    /\ retAt = "end"
    /\ Len(esc.Operations) = 2
    /\ Len(requests) = 4
    /\ requests[1].method = "GET" /\ requests[1].op = 1
    /\ requests[2].method = "PUT" /\ requests[2].op = 1
    /\ requests[3].method = "GET" /\ requests[3].op = 2
    /\ requests[4].method = "PUT" /\ requests[4].op = 2

(***************************************************************************)
(* Properties of the frame of the status tracker's operations.             *)
(***************************************************************************)
StatusOperations ==
    UpdateWithPhaseOps \cup { "UpdateElasticsearchApplyingChanges",
                              "UpdateElasticsearchInvalid",
                              "UpdateElasticsearchStatusPhase" }

\* C21: during a pass the persisted status held on the resource is changed
\* only by Apply: a status operation changes at most the in-progress status
\* and the event queue, a hints update changes only the hints, and both
\* leave s.cluster.Status as NewState read it; the stored status changes
\* only when the caller persists what Apply committed, once in a pass.
C21_OnlyApplyChangesPersistedStatus ==
    [][ /\ (s # NoState /\ lastOp' # "Apply")
             => s'.cluster.Status = s.cluster.Status
        /\ (s # NoState /\ lastOp' \in StatusOperations)
             => /\ s'.cluster = s.cluster
                /\ s'.hints = s.hints
                /\ resource' = resource
        /\ lastOp' = "UpdateOrchestrationHints"
             => /\ s'.cluster = s.cluster
                /\ s'.status = s.status
                /\ s'.events = s.events
                /\ resource' = resource
        /\ resource' # resource
             => /\ lastOp = "Apply"
                /\ lastOp' = "UpdateStatus"
                /\ resource' = s.cluster.Status
                /\ s.cluster.Status = s.status ]_vars

\* A pass has merged hints and updated the in-progress status, which now
\* differs from the persisted status it still holds, before any Apply.
C21_Witness ==
    /\ s # NoState
    /\ ~applied.called
    /\ calls = 2
    /\ s.hints # NoHints
    /\ s.status # s.cluster.Status
    /\ s.cluster.Status = resource
    /\ lastOp \in StatusOperations

\* C22: UpdateElasticsearchInvalid sets the in-progress phase to Invalid,
\* adds exactly one event, a Warning/Validation event with the text of the
\* error, after the events already queued, and leaves the availableNodes,
\* the health and the version of the in-progress status as they were.
C22_InvalidTouchesOnlyPhase ==
    [][ (s # NoState /\ calls' = calls + 1
                    /\ lastOp' = "UpdateElasticsearchInvalid")
        => /\ s'.status.Phase = ResourceInvalid
           /\ s'.events = Append(s.events,
                   [type |-> "Warning", reason |-> "Validation",
                    message |-> lastErr'])
           /\ s'.status.AvailableNodes = s.status.AvailableNodes
           /\ s'.status.Health = s.status.Health
           /\ s'.status.Version = s.status.Version ]_vars

\* UpdateElasticsearchInvalid was called after an update that had made
\* the in-progress availableNodes, health and version differ from the
\* persisted ones, and with an event already queued: all are still there.
C22_Witness ==
    /\ s # NoState
    /\ lastOp = "UpdateElasticsearchInvalid"
    /\ calls = 2
    /\ s.status.Phase = ResourceInvalid
    /\ s.status.AvailableNodes # resource.AvailableNodes
    /\ s.status.Health # resource.Health
    /\ s.status.Version # resource.Version
    /\ Len(s.events) = 2
    /\ s.events[2].message = lastErr

(***************************************************************************)
(* Convergence under retries.                                              *)
(***************************************************************************)
\* The cluster holds, at the URL of operation i, the desired body or a
\* superset of it.
TargetSatisfied(i) ==
    LET op == esc.Operations[i] IN
    /\ es[op.URL] \notin {NoBody, InvalidJSON}
    /\ Satisfies(es[op.URL], op.Body)

\* A pass has returned without asking for a requeue, and every declared
\* target is satisfied.
ConvergenceCompleted ==
    /\ pc = "returned"
    /\ ~result.Requeue
    /\ \A i \in 1..Len(esc.Operations) : TargetSatisfied(i)

\* The resource is one the controller works on: managed, compatible with
\* the operator and valid.
Reconcilable ==
    /\ env.unmanaged # "unmanaged"
    /\ env.compat \in {"-", "compatible"}
    /\ env.valid # "invalid"

\* C23: with a scheduler that invokes the pass again whenever a requeue is
\* asked for, reads and writes that succeed from some pass on, writes that
\* store the desired body and nobody else changing the cluster, eventually
\* a pass returns without a requeue with every declared target satisfied;
\* stated for a resource that stays managed, compatible and valid and
\* whose operations do not ask for different bodies at one URL.
C23_ConvergesUnderRetries ==
    ([]Reconcilable /\ CompatibleOperations) => <>ConvergenceCompleted

\* C23 where a failed write is returned to the loop: the same, with debug
\* logging disabled, so that line 444 returns the error of the PUT.
C23_ConvergesWhenWriteErrorsAreReturned ==
    ([]Reconcilable /\ CompatibleOperations /\ ~debug) => <>ConvergenceCompleted

====
